---- MODULE Spec2Model ----
(***************************************************************************)
(* Rotation tracker of the Aurum Bespoke posting scripts.                  *)
(*                                                                         *)
(* Three generator scripts keep a JSON state file each and are started by  *)
(* an external scheduler, one process per run:                             *)
(*   "video"  automation-video/main.py        (class VideoAutomation)      *)
(*   "send"   automation/generate_and_send.py                              *)
(*   "daily"  automation/generate_and_send_daily.py; generate_zero_cost.py *)
(*            has the same state functions and main(), with shorter lists  *)
(*   "pil"    automation/generate_content_pil_fallback.py, the same again  *)
(*            but for its send functions                                   *)
(* The variable script fixes which of them a behaviour follows.  Calendar  *)
(* dates are the numbers 1..MaxDate; 0 stands for the empty date string    *)
(* of a default state.  The clock (today) advances independently of the    *)
(* runs, also in the middle of one.                                        *)
(***************************************************************************)
EXTENDS Integers, Sequences, FiniteSets, TLC

(***************************************************************************)
(* Bounds of the model.                                                    *)
(***************************************************************************)
\* calendar dates explored: 1..MaxDate
MaxDate == 2
\* largest services list a buckets.json may hold (DEFAULT_BUCKETS has 8)
NumServices == 4
\* invocations of the script (processes started) explored in one behaviour
MaxRuns == 4
\* visual variants and augmentation styles explored (ENHANCED_VARIANTS has 8
\* entries, ADVANCED_STYLES 7)
NumVariants == 2
NumStyles == 1
\* the hashtag list: so many full batches of so many tags, and one tag more
FullBatches == 2
TagsPerPost == 2

(***************************************************************************)
(* Program constants.                                                      *)
(***************************************************************************)
DAILY_VIDEO_LIMIT == 3
DAILY_POST_TARGET == 5
\* ceiling of the serial number (next_slno > 999 wraps to 1)
MaxSlno == 999
\* used_videos keeps the last 30 entries
HistoryLimit == 30
\* len(SERVICE_KEYS) in generate_and_send.py
NumSendServices == 7
\* len(SERVICE_KEYS) in generate_and_send_daily.py and its variants
NumDailyServices == 7
\* the value dict.get(key) gives for a missing date key (None): no date
NoneDate == -1
\* POST attempts of one send_to_telegram call
MAX_RETRIES == 3

Dates == 1..MaxDate

Scripts == {"video", "send", "daily", "pil"}

VARIABLES
  script,      \* the script this behaviour runs
  today,       \* the calendar date (IST / local), read by the daily check
  buckets,     \* video: the content buckets loaded by load_buckets
  vFile,       \* video: automation-video/state.json
  automation,  \* video: the VideoAutomation object and the position of run()
  runs,        \* processes started so far
  gFile,       \* send: automation/state.json
  sender,      \* send: the state dict and locals of main() and the position in it
  resolvable,  \* daily: which image files of each service exist on disk
  dFile,       \* daily: state_daily.json (state_zero_cost.json for "zero")
  poster,      \* daily: the state dict and locals of main() and the position in it
  sentOn,      \* ghost: posts delivered, by calendar date of the delivery
  sentFor,     \* ghost: posts delivered, by date of the run's daily check
  lastSerial,  \* ghost: the serial of the post delivered last
  posts,       \* ghost: the posts a daily script has delivered, by date of the run
  savesFailed, \* ghost: the saves that failed, by date of the run's daily check
  hashtags,    \* video: hashtag_rotation.json and the rotation list in memory
  call         \* one call of send_to_telegram: its inputs and how far it has come

envVars == <<script, today, hashtags, call>>
\* every variable a step inside a run leaves alone whatever the script
fixedVars == <<script, today, runs, hashtags, call>>
videoVars == <<buckets, vFile, automation>>
sendVars == <<gFile, sender>>
dailyVars == <<resolvable, dFile, poster>>
ghostVars == <<sentOn, sentFor, lastSerial, posts, savesFailed>>
vars == <<script, today, buckets, vFile, automation, runs, gFile, sender,
          resolvable, dFile, poster, sentOn, sentFor, lastSerial, posts,
          savesFailed, hashtags, call>>

(***************************************************************************)
(* Python dicts: a state is a record of its values and the set of keys     *)
(* that are present; a key that is absent holds a dummy value that is      *)
(* never read (Get returns the default, GetItem raises KeyError).          *)
(***************************************************************************)
Get(d, k, default) == IF k \in d.present THEN d[k] ELSE default

HasKey(d, k) == k \in d.present

SetItem(d, k, v) == [d EXCEPT ![k] = v, !.present = @ \cup {k}]

VideoKeys ==
  {"last_video_date", "count_today", "last_slno", "used_services_today", "used_videos"}

\* get_default_state (the unused key last_rotation is left out)
get_default_state ==
  [present |-> VideoKeys,
   last_video_date |-> 0,
   count_today |-> 0,
   last_slno |-> 0,
   used_services_today |-> <<>>,
   used_videos |-> <<>>]

\* the empty dict {} that load_state returns when json.load fails
EmptyDict == [get_default_state EXCEPT !.present = {}]

\* a state file: missing, unparseable, or holding a saved dict; tmp tells whether
\* the temporary file of an atomic save lies next to it
MissingFile(d) == [kind |-> "missing", data |-> d, tmp |-> FALSE]
CorruptFile(d) == [kind |-> "corrupt", data |-> d, tmp |-> FALSE]
SavedFile(d) == [kind |-> "ok", data |-> d, tmp |-> FALSE]

(***************************************************************************)
(* json.dump and json.load on a state dict.  A JSON value is a pair of its *)
(* type and its content; a JSON object maps the keys that are present to   *)
(* their values.  Dates, services and post names are Python strings.       *)
(***************************************************************************)
StringKeys == {"last_video_date", "last_post_date"}

NumberKeys == {"count_today", "last_slno", "video_count_today", "last_service_index"}

BoolKeys == {"image_generated_today", "video_generated_today"}

JsonOf(k, v) ==
  CASE k \in StringKeys -> <<"string", v>>
    [] k \in NumberKeys -> <<"number", v>>
    [] k \in BoolKeys -> <<IF v THEN "true" ELSE "false", v>>
    [] OTHER -> <<"array", [i \in 1..Len(v) |-> <<"string", v[i]>>]>>

\* json.dump(state, f): the object written
json_dump(s) ==
  LET keys == IF "present" \in DOMAIN s THEN s.present ELSE DOMAIN s
  IN [k \in keys |-> JsonOf(k, s[k])]

\* a decoder that gives the elements of an array in reverse order
Decode_reversed(j) ==
  IF j[1] = "array" THEN [i \in 1..Len(j[2]) |-> j[2][Len(j[2]) + 1 - i][2]]
  ELSE j[2]

\* the Python value json.load gives for a JSON value
Decode(j) ==
  IF j[1] = "array" THEN [i \in 1..Len(j[2]) |-> j[2][i][2]]
  ELSE j[2]

\* json.load(f): the dict read; like gives the keys of the dict and, for a key
\* the object does not hold, the value that is never read
json_load(obj, like) ==
  [k \in DOMAIN like |->
     IF k = "present" THEN DOMAIN obj
     ELSE IF k \in DOMAIN obj THEN Decode(obj[k])
     ELSE like[k]]

\* the dict a later load reads from the file that save_state wrote for s
Stored(s, like) == json_load(json_dump(s), like)

\* VideoAutomation.load_state
load_state(f) ==
  CASE f.kind = "missing" -> get_default_state
    [] f.kind = "corrupt" -> EmptyDict
    [] OTHER -> f.data

\* a daily check that resets the counter and keeps the services used
check_daily_reset_keeps_used(s, d) ==
  IF Get(s, "last_video_date", NoneDate) # d
    THEN SetItem(SetItem(s, "last_video_date", d), "count_today", 0)
    ELSE s

\* a daily check that resets whatever the stored date is
check_daily_reset_always(s, d) ==
  SetItem(SetItem(SetItem(s, "last_video_date", d), "count_today", 0),
          "used_services_today", <<>>)

\* VideoAutomation.check_daily_reset, with today_str = d
check_daily_reset(s, d) ==
  IF Get(s, "last_video_date", NoneDate) # d
    THEN SetItem(SetItem(SetItem(s, "last_video_date", d), "count_today", 0),
                 "used_services_today", <<>>)
    ELSE s

\* a quota test that lets the run post when the counter is at the limit
can_post_today_at_limit(s) == Get(s, "count_today", 0) <= DAILY_VIDEO_LIMIT

\* VideoAutomation.can_post_today
can_post_today(s) == Get(s, "count_today", 0) < DAILY_VIDEO_LIMIT

\* a serial that does not wrap
get_next_slno_no_wrap(s) == Get(s, "last_slno", 0) + 1

\* VideoAutomation.get_next_slno
get_next_slno(s) ==
  LET next_slno == Get(s, "last_slno", 0) + 1
  IN IF next_slno > MaxSlno THEN 1 ELSE next_slno

Range(seq) == {seq[i] : i \in 1..Len(seq)}

\* [s for s in seq if s not in used], in the order of seq
RECURSIVE NotIn(_, _)
NotIn(seq, used) ==
  IF seq = <<>> THEN <<>>
  ELSE IF Head(seq) \in used THEN NotIn(Tail(seq), used)
       ELSE <<Head(seq)>> \o NotIn(Tail(seq), used)

\* a selection that ignores the services used today
available_services_all(s, services) == services

\* choose_service_and_style: the services random.choice may return
available_services(s, services) ==
  LET avail == NotIn(services, Range(Get(s, "used_services_today", <<>>)))
  IN IF avail = <<>> THEN services ELSE avail

\* a choice that empties the used list every time
choose_reset_always(s, services) == SetItem(s, "used_services_today", <<>>)

\* choose_service_and_style: the state after the all-used reset
choose_reset(s, services) ==
  IF NotIn(services, Range(Get(s, "used_services_today", <<>>))) = <<>>
    THEN SetItem(s, "used_services_today", <<>>)
    ELSE s

\* a cut that keeps the first n entries of the list
FirstN(seq, n) ==
  IF Len(seq) > n THEN SubSeq(seq, 1, n) ELSE seq

\* self.state["used_videos"][-30:]
LastN(seq, n) ==
  IF Len(seq) > n THEN SubSeq(seq, Len(seq) - n + 1, Len(seq)) ELSE seq

\* str(final_video): the serial and the service name make the file name
VideoName(slno, service) == <<slno, service>>

\* run(), "Update state": the assignments in order, up to the first KeyError
record_post(s, slno, service) ==
  LET s1 == SetItem(s, "last_slno", slno)
      s2 == SetItem(s1, "count_today", Get(s1, "count_today", 0) + 1)
  IN IF ~HasKey(s2, "used_services_today")
       THEN [state |-> s2, raised |-> TRUE]
     ELSE LET s3 == [s2 EXCEPT !.used_services_today = Append(@, service)]
          IN IF ~HasKey(s3, "used_videos")
               THEN [state |-> s3, raised |-> TRUE]
             ELSE [state |-> [s3 EXCEPT !.used_videos =
                                LastN(Append(@, VideoName(slno, service)), HistoryLimit)],
                   raised |-> FALSE]

(***************************************************************************)
(* generate_and_send.py.  Its state dict always holds every key: it is     *)
(* the default dict or a dict the script saved.                            *)
(***************************************************************************)
\* SERVICE_KEYS of generate_and_send.py: seven services
SERVICE_KEYS == [i \in 1..NumSendServices |-> i]

\* load_state of generate_and_send.py: the default dict; generated_images is the
\* list of the keys of that dict (generated_videos and last_video_service, never
\* written either, are left out)
default_state ==
  [last_slno |-> 0,
   last_post_date |-> 0,
   count_today |-> 0,
   used_today |-> <<>>,
   last_video_date |-> 0,
   video_count_today |-> 0,
   generated_images |-> <<>>]

\* pick_today_target, with today = d
pick_today_target(s, d) ==
  LET s1 == IF s.last_post_date # d
              THEN [s EXCEPT !.last_post_date = d, !.count_today = 0, !.used_today = <<>>]
              ELSE s
  IN IF s1.last_video_date # d
       THEN [s1 EXCEPT !.last_video_date = d, !.video_count_today = 0]
       ELSE s1

\* a quota test that lets the run post when the counter is at the target
image_due_at_target(s) == s.count_today <= DAILY_POST_TARGET

\* main(): the quota test of the image post
image_due(s) == s.count_today < DAILY_POST_TARGET

\* choose_service_for_image: the services random.choice may return
send_available(s) ==
  LET avail == NotIn(SERVICE_KEYS, Range(s.used_today))
  IN IF avail = <<>> THEN SERVICE_KEYS ELSE avail

\* choose_service_for_image: the state after the all-used reset
send_choose_reset(s) ==
  IF NotIn(SERVICE_KEYS, Range(s.used_today)) = <<>>
    THEN [s EXCEPT !.used_today = <<>>]
    ELSE s

\* main(): next_slno
send_next_slno(s) ==
  LET next_slno == s.last_slno + 1
  IN IF next_slno > MaxSlno THEN 1 ELSE next_slno

\* main(): "Update state"
send_record(s, next_slno, service) ==
  [s EXCEPT !.last_slno = next_slno,
            !.count_today = @ + 1,
            !.used_today = Append(@, service)]

(***************************************************************************)
(* generate_and_send_daily.py and generate_content_pil_fallback.py: the    *)
(* same state dict and main().                                             *)
(* load_state fills in every missing key, so the dict always holds all.    *)
(* Services are numbered 1..NumDailyServices in the order of SERVICE_KEYS; *)
(* SERVICE_KEYS.index(service) is service - 1.                             *)
(***************************************************************************)
DailyScripts == {"daily", "pil"}

DailyServices == 1..NumDailyServices

\* load_state of the daily scripts: the dict of defaults
daily_defaults ==
  [last_service_index |-> 0,
   last_post_date |-> 0,
   image_generated_today |-> FALSE,
   video_generated_today |-> FALSE,
   used_combinations |-> <<>>]

\* load_state of the daily scripts: a file that does not parse gives {} + defaults
daily_load_state(f) == IF f.kind = "ok" THEN f.data ELSE daily_defaults

\* a reset that clears the flags and the list at every run
reset_daily_state_always(s, d) ==
  [s EXCEPT !.last_post_date = d,
            !.image_generated_today = FALSE,
            !.video_generated_today = FALSE,
            !.used_combinations = <<>>]

\* reset_daily_state, with today_str = d: the dict after it
reset_daily_state(s, d) ==
  IF s.last_post_date # d
    THEN [s EXCEPT !.last_post_date = d,
                   !.image_generated_today = FALSE,
                   !.video_generated_today = FALSE,
                   !.used_combinations = <<>>]
    ELSE s

\* the colour names of a service's presets, of which the first, a name that no
\* other service has, is modelled
ColorNames(service) == {<<service, "first">>}

\* CONTENT_THEMES, of which the first is modelled
Themes == {"studio_portrait"}

\* f"{service}::{v}::{s}::{cname}::{theme}"
CombinationKey(service, v, st, cname, theme) == <<service, v, st, cname, theme>>

\* the combinations the nested loops of choose_service_and_variant go through
Combinations(service) ==
  {[service |-> service, variant |-> v, style |-> st, color |-> c, theme |-> t] :
     v \in 1..NumVariants, st \in 1..NumStyles, c \in ColorNames(service),
     t \in Themes}

KeyOf(c) == CombinationKey(c.service, c.variant, c.style, c.color, c.theme)

\* ordered_services of choose_service_and_variant
ordered_services(s) ==
  LET next_idx == s.last_service_index % NumDailyServices
  IN [i \in 1..NumDailyServices |-> ((next_idx + i - 1) % NumDailyServices) + 1]

\* a resolver that finds an image for every service
HasImage_any(res, service) == TRUE

\* resolve_image_path over SERVICE_CONFIG[service]["files"]: res[service] is 0 when
\* no file of the service exists, 1 when the first one does, 2 when only a later one
HasImage(res, service) == res[service] # 0

\* a choice that takes any combination of the first service that has an image
choose_any_combination(s, res) ==
  LET order == ordered_services(s)
      hits == {i \in 1..NumDailyServices : HasImage(res, order[i])}
  IN IF hits # {}
       THEN Combinations(order[CHOOSE i \in hits : \A j \in hits : i <= j])
     ELSE {}

\* choose_service_and_variant: the results it may return; the empty set when it
\* raises RuntimeError("No service images found.")
choose_service_and_variant(s, res) ==
  LET used == Range(s.used_combinations)
      order == ordered_services(s)
      fresh(service) == {c \in Combinations(service) : KeyOf(c) \notin used}
      hits == {i \in 1..NumDailyServices : HasImage(res, order[i]) /\ fresh(order[i]) # {}}
  IN IF hits # {}
       THEN fresh(order[CHOOSE i \in hits : \A j \in hits : i <= j])
     ELSE IF res[order[1]] = 1
       THEN Combinations(order[1])
     ELSE {}

\* a choice of the video service that does not look at the image service
choose_any_service_for_video(image_service) == DailyServices

\* choose_different_service_for_video: the services random.choice may return
choose_different_service_for_video(image_service) ==
  LET others == DailyServices \ {image_service}
  IN IF others # {} THEN others ELSE {image_service}

\* main(): "Update state" after the image post
record_image(s, c) ==
  [s EXCEPT !.image_generated_today = TRUE,
            !.last_service_index = c.service - 1,
            !.used_combinations = Append(@, KeyOf(c))]

\* main(): "Update state" after the video post
record_video(s, c, video_service) ==
  [s EXCEPT !.video_generated_today = TRUE,
            !.last_service_index = c.service - 1,
            !.used_combinations =
               Append(@, CombinationKey(video_service, c.variant, c.style, c.color, c.theme))]

\* send_to_telegram / send_video_to_telegram: whether a failed delivery raises;
\* the PIL fallback script prints the error and returns
send_raises(scr) == scr # "pil"

(***************************************************************************)
(* The content buckets: DEFAULT_BUCKETS or the content of buckets.json,    *)
(* or {} when buckets.json cannot be parsed.                               *)
(***************************************************************************)
AllServices == [i \in 1..NumServices |-> i]

Catalogs ==
  {[readable |-> TRUE, services |-> SubSeq(AllServices, 1, n)] : n \in 0..NumServices}
  \cup {[readable |-> FALSE, services |-> <<>>]}

(***************************************************************************)
(* One VideoAutomation process: the object's state dict, the locals of     *)
(* run() and the position in it.  Two process slots exist; the sequential  *)
(* specifications use the first one only.                                  *)
(***************************************************************************)
Procs == {1, 2}

IdleProc ==
  [pc |-> "idle", loaded |-> "missing", state |-> get_default_state, slno |-> 0,
   service |-> 0, result |-> "none", sent |-> FALSE, failed |-> "none"]

AllIdle == \A q \in Procs : automation[q].pc = "idle"

(***************************************************************************)
(* One process of generate_and_send.py.  An exception that main() does not *)
(* catch ends the process with a traceback: result "crash".                *)
(***************************************************************************)
\* posts already delivered on date 1 when the modelled runs start
StartSent(n) == [d \in Dates |-> IF d = 1 THEN n ELSE 0]

IdleSender ==
  [pc |-> "idle", loaded |-> "missing", state |-> default_state, slno |-> 0,
   service |-> 0, result |-> "none", sent |-> FALSE, failed |-> "none"]

\* the states of automation/state.json when the first modelled run starts: no
\* file yet, or the file left by the fourth run of date 1, two posts ahead of the
\* serial wrap
SendStartFiles ==
  {MissingFile(default_state),
   SavedFile([default_state EXCEPT
                !.last_post_date = 1, !.count_today = DAILY_POST_TARGET - 1,
                !.last_slno = MaxSlno - 2,
                !.used_today = SubSeq(SERVICE_KEYS, 1, DAILY_POST_TARGET - 1),
                !.last_video_date = 1])}

InitSend ==
  /\ script = "send"
  /\ gFile \in SendStartFiles
  /\ sentOn = StartSent(gFile.data.count_today)
  /\ sentFor = sentOn
  /\ lastSerial = gFile.data.last_slno

\* main(): load_state; json.load raises on a file that does not parse
GStart ==
  /\ script = "send"
  /\ sender.pc = "idle"
  /\ runs < MaxRuns
  /\ runs' = runs + 1
  /\ sender' = IF gFile.kind = "corrupt"
                 THEN [IdleSender EXCEPT !.pc = "exit", !.loaded = gFile.kind,
                                         !.result = "crash", !.failed = "load"]
                 ELSE [IdleSender EXCEPT !.pc = "pick", !.loaded = gFile.kind,
                         !.state = IF gFile.kind = "missing" THEN default_state
                                    ELSE gFile.data]
  /\ UNCHANGED <<envVars, videoVars, gFile, dailyVars, ghostVars>>

\* main(): pick_today_target and the quota test
GPick ==
  /\ sender.pc = "pick"
  /\ LET s == pick_today_target(sender.state, today)
     IN sender' = [sender EXCEPT !.state = s,
                     !.pc = IF image_due(s) THEN "choose" ELSE "save"]
  /\ UNCHANGED <<fixedVars, videoVars, gFile, dailyVars, ghostVars>>

\* main(): choose_service_for_image
GChoose ==
  /\ sender.pc = "choose"
  /\ \E service \in Range(send_available(sender.state)) :
       sender' = [sender EXCEPT !.pc = "build", !.service = service,
                    !.state = send_choose_reset(@)]
  /\ UNCHANGED <<fixedVars, videoVars, gFile, dailyVars, ghostVars>>

\* main(): the image is drawn and watermarked; a failure there raises
GBuild(ok) ==
  /\ sender.pc = "build"
  /\ sender' = IF ok THEN [sender EXCEPT !.pc = "send", !.slno = send_next_slno(sender.state)]
                     ELSE [sender EXCEPT !.pc = "exit", !.result = "crash",
                                         !.failed = "build"]
  /\ UNCHANGED <<fixedVars, videoVars, gFile, dailyVars, ghostVars>>

\* main(): send_to_telegram, which raises when the last attempt fails
GSend(ok) ==
  /\ sender.pc = "send"
  /\ sender' = IF ok THEN [sender EXCEPT !.pc = "record", !.sent = TRUE]
                     ELSE [sender EXCEPT !.pc = "exit", !.result = "crash",
                                         !.failed = "send"]
  /\ sentOn' = IF ok THEN [sentOn EXCEPT ![today] = @ + 1] ELSE sentOn
  /\ sentFor' = IF ok THEN [sentFor EXCEPT ![sender.state.last_post_date] = @ + 1]
                      ELSE sentFor
  /\ lastSerial' = IF ok THEN sender.slno ELSE lastSerial
  /\ UNCHANGED <<posts, savesFailed>>
  /\ UNCHANGED <<fixedVars, videoVars, gFile, dailyVars>>

\* main(): "Update state"
GRecord ==
  /\ sender.pc = "record"
  /\ sender' = [sender EXCEPT !.pc = "save",
                  !.state = send_record(@, sender.slno, sender.service)]
  /\ UNCHANGED <<fixedVars, videoVars, gFile, dailyVars, ghostVars>>

\* main(): save_state and return 0
GSave ==
  /\ sender.pc = "save"
  /\ gFile' = SavedFile(Stored(sender.state, default_state))
  /\ sender' = [sender EXCEPT !.pc = "exit", !.result = "0"]
  /\ UNCHANGED <<fixedVars, videoVars, dailyVars, ghostVars>>

\* the process exits
GExit ==
  /\ sender.pc = "exit"
  /\ sender' = IdleSender
  /\ UNCHANGED <<fixedVars, videoVars, gFile, dailyVars, ghostVars>>

SendStep ==
  \/ GStart
  \/ GPick
  \/ GChoose
  \/ \E ok \in BOOLEAN : GBuild(ok)
  \/ \E ok \in BOOLEAN : GSend(ok)
  \/ GRecord
  \/ GSave
  \/ GExit

(***************************************************************************)
(* One process of a daily script.                                          *)
(***************************************************************************)
NoCombination ==
  [service |-> 0, variant |-> 0, style |-> 0, color |-> <<0, "first">>,
   theme |-> "studio_portrait"]

IdlePoster ==
  [pc |-> "idle", loaded |-> "missing", state |-> daily_defaults,
   chosen |-> NoCombination,
   video_service |-> 0, result |-> "none", sent |-> {}]

\* the image files found on disk: all of them; none; or only a later file of the
\* first service, none of the second and the first file of every other service
ResolveCases ==
  {[x \in DailyServices |-> 1],
   [x \in DailyServices |-> 0],
   [x \in DailyServices |-> IF x = 1 THEN 2 ELSE IF x = 2 THEN 0 ELSE 1]}

InitDaily ==
  /\ script \in DailyScripts
  /\ resolvable \in ResolveCases
  /\ dFile = MissingFile(daily_defaults)
  /\ sentOn = StartSent(0)
  /\ sentFor = sentOn
  /\ lastSerial = 0

IdleDaily ==
  /\ resolvable = [x \in DailyServices |-> 0]
  /\ dFile = MissingFile(daily_defaults)

\* ghost: the posts delivered by the runs of one date, the date being the one
\* reset_daily_state stored for the run: the number of images, the number of
\* videos and the service of the last image
NoPosts == [images |-> 0, videos |-> 0, service |-> 0]

DeliveredImage(service) ==
  [posts EXCEPT ![poster.state.last_post_date] =
     [@ EXCEPT !.images = @ + 1, !.service = service]]

DeliveredVideo ==
  [posts EXCEPT ![poster.state.last_post_date] = [@ EXCEPT !.videos = @ + 1]]

\* main(): load_state
DStart ==
  /\ script \in DailyScripts
  /\ poster.pc = "idle"
  /\ runs < MaxRuns
  /\ runs' = runs + 1
  /\ poster' = [IdlePoster EXCEPT !.pc = "reset", !.loaded = dFile.kind,
                                  !.state = daily_load_state(dFile)]
  /\ UNCHANGED <<envVars, videoVars, sendVars, resolvable, dFile, ghostVars>>

\* main(): reset_daily_state, which saves the state when it resets, and the test
\* that both posts of today are done
DReset ==
  /\ poster.pc = "reset"
  /\ LET s == reset_daily_state(poster.state, today)
     IN /\ dFile' = IF poster.state.last_post_date # today
                      THEN SavedFile(Stored(s, daily_defaults)) ELSE dFile
        /\ poster' = IF s.image_generated_today /\ s.video_generated_today
                       THEN [poster EXCEPT !.state = s, !.pc = "exit", !.result = "0"]
                       ELSE [poster EXCEPT !.state = s, !.pc = "choose"]
  /\ UNCHANGED <<fixedVars, videoVars, sendVars, resolvable, ghostVars>>

\* main(): choose_service_and_variant
DChoose ==
  /\ poster.pc = "choose"
  /\ LET results == choose_service_and_variant(poster.state, resolvable)
     IN IF results = {}
          THEN poster' = [poster EXCEPT !.pc = "exit", !.result = "crash"]
          ELSE \E c \in results :
                 poster' = [poster EXCEPT !.chosen = c,
                              !.pc = IF ~poster.state.image_generated_today
                                       THEN "build_image" ELSE "choose_video"]
  /\ UNCHANGED <<fixedVars, videoVars, sendVars, resolvable, dFile, ghostVars>>

\* main(): build_post; a failure raises
DBuildImage(ok) ==
  /\ poster.pc = "build_image"
  /\ poster' = IF ok THEN [poster EXCEPT !.pc = "send_image"]
                     ELSE [poster EXCEPT !.pc = "exit", !.result = "crash"]
  /\ UNCHANGED <<fixedVars, videoVars, sendVars, resolvable, dFile, ghostVars>>

\* main(): send_to_telegram
DSendImage(ok) ==
  /\ poster.pc = "send_image"
  /\ poster' = IF ok THEN [poster EXCEPT !.pc = "record_image", !.sent = @ \cup {"image"}]
               ELSE IF send_raises(script)
                 THEN [poster EXCEPT !.pc = "exit", !.result = "crash"]
               ELSE [poster EXCEPT !.pc = "record_image"]
  /\ posts' = IF ok THEN DeliveredImage(poster.chosen.service)
                    ELSE posts
  /\ UNCHANGED <<fixedVars, videoVars, sendVars, resolvable, dFile, sentOn, sentFor,
                 lastSerial, savesFailed>>

\* main(): "Update state" and save_state after the image post
DRecordImage ==
  /\ poster.pc = "record_image"
  /\ LET s == record_image(poster.state, poster.chosen)
     IN /\ dFile' = SavedFile(Stored(s, daily_defaults))
        /\ poster' = IF ~s.video_generated_today
                       THEN [poster EXCEPT !.state = s, !.pc = "choose_video"]
                       ELSE [poster EXCEPT !.state = s, !.pc = "exit", !.result = "0"]
  /\ UNCHANGED <<fixedVars, videoVars, sendVars, resolvable, ghostVars>>

\* main(): choose_different_service_for_video, when the video is still due
DChooseVideo ==
  /\ poster.pc = "choose_video"
  /\ IF poster.state.video_generated_today
       THEN poster' = [poster EXCEPT !.pc = "exit", !.result = "0"]
       ELSE \E v \in choose_different_service_for_video(poster.chosen.service) :
              poster' = [poster EXCEPT !.pc = "build_video", !.video_service = v]
  /\ UNCHANGED <<fixedVars, videoVars, sendVars, resolvable, dFile, ghostVars>>

\* main(): build_video_reel; a failure raises
DBuildVideo(ok) ==
  /\ poster.pc = "build_video"
  /\ poster' = IF ok THEN [poster EXCEPT !.pc = "send_video"]
                     ELSE [poster EXCEPT !.pc = "exit", !.result = "crash"]
  /\ UNCHANGED <<fixedVars, videoVars, sendVars, resolvable, dFile, ghostVars>>

\* main(): send_video_to_telegram
DSendVideo(ok) ==
  /\ poster.pc = "send_video"
  /\ poster' = IF ok THEN [poster EXCEPT !.pc = "record_video", !.sent = @ \cup {"video"}]
               ELSE IF send_raises(script)
                 THEN [poster EXCEPT !.pc = "exit", !.result = "crash"]
               ELSE [poster EXCEPT !.pc = "record_video"]
  /\ posts' = IF ok THEN DeliveredVideo
                    ELSE posts
  /\ UNCHANGED <<fixedVars, videoVars, sendVars, resolvable, dFile, sentOn, sentFor,
                 lastSerial, savesFailed>>

\* main(): "Update state" and save_state after the video post, and the return
DRecordVideo ==
  /\ poster.pc = "record_video"
  /\ LET s == record_video(poster.state, poster.chosen, poster.video_service)
     IN /\ dFile' = SavedFile(Stored(s, daily_defaults))
        /\ poster' = [poster EXCEPT !.state = s, !.pc = "exit", !.result = "0"]
  /\ UNCHANGED <<fixedVars, videoVars, sendVars, resolvable, ghostVars>>

\* the process exits
DExit ==
  /\ poster.pc = "exit"
  /\ poster' = IdlePoster
  /\ UNCHANGED <<fixedVars, videoVars, sendVars, resolvable, dFile, ghostVars>>

DailyStep ==
  \/ DStart
  \/ DReset
  \/ DChoose
  \/ \E ok \in BOOLEAN : DBuildImage(ok)
  \/ \E ok \in BOOLEAN : DSendImage(ok)
  \/ DRecordImage
  \/ DChooseVideo
  \/ \E ok \in BOOLEAN : DBuildVideo(ok)
  \/ \E ok \in BOOLEAN : DSendVideo(ok)
  \/ DRecordVideo
  \/ DExit

(***************************************************************************)
(* The hashtag rotation of the video automation.  A tag is its index in    *)
(* AGGRESSIVE_HASHTAGS, which has 76 tags, five batches of 15 and one tag  *)
(* more; the model keeps that shape with FullBatches batches of            *)
(* TagsPerPost tags and one tag more.                                      *)
(***************************************************************************)
NumTags == FullBatches * TagsPerPost + 1

AGGRESSIVE_HASHTAGS == [i \in 1..NumTags |-> i]

Reverse(seq) == [i \in 1..Len(seq) |-> seq[Len(seq) + 1 - i]]

\* random.shuffle: the orders that are followed, the list as it is and reversed
Shuffles(seq) == {seq, Reverse(seq)}

\* hashtag_rotation.json holding current_rotation = rotation
RotationFile(rotation) == [kind |-> "ok", data |-> rotation]

NoRotationFile == [kind |-> "missing", data |-> <<>>]

\* load_hashtag_rotation: the lists it may return, each with the file it leaves;
\* without a file that parses it shuffles all tags and saves them
load_hashtag_rotation(f) ==
  IF f.kind = "ok" THEN {[rotation |-> f.data, file |-> f]}
  ELSE {[rotation |-> r, file |-> RotationFile(r)] : r \in Shuffles(AGGRESSIVE_HASHTAGS)}

\* a rotation that is refilled as soon as fewer than count tags remain, the
\* remainder being dropped
get_next_hashtags_drops(rotation, count) ==
  LET refill == Len(rotation) < count
      start == IF refill THEN Shuffles(AGGRESSIVE_HASHTAGS) ELSE {rotation}
  IN {[selected |-> SubSeq(r, 1, count),
       rotation |-> SubSeq(r, count + 1, Len(r)),
       refilled |-> refill] : r \in start}

\* get_next_hashtags(count): the batches it may return, each with the rotation it
\* leaves in memory and saves; refilled tells that it found the rotation empty
get_next_hashtags(rotation, count) ==
  LET start == IF rotation = <<>> THEN Shuffles(AGGRESSIVE_HASHTAGS) ELSE {rotation}
      cut(r) == IF count < Len(r) THEN count ELSE Len(r)
  IN {[selected |-> SubSeq(r, 1, cut(r)),
       rotation |-> SubSeq(r, cut(r) + 1, Len(r)),
       refilled |-> rotation = <<>>] : r \in start}

\* the rotation where no behaviour follows it: file is hashtag_rotation.json,
\* rotation the list of the object, selected the batch of the last call; ghosts:
\* atStart the file when the process started, since the tags handed out since
\* the last refill, calls the number of calls since then
NoHashtags ==
  [file |-> NoRotationFile, rotation |-> <<>>, selected |-> <<>>,
   atStart |-> NoRotationFile, since |-> {}, calls |-> 0]

\* no call of send_to_telegram is followed
NoCall ==
  [sender |-> "none", credentials |-> FALSE, responses |-> <<>>, attempts |-> 0,
   pc |-> "none", result |-> "none"]

\* the 30 entries of used_videos after the post with serial last, the services
\* being taken in turn
StartHistory(last, services) ==
  [i \in 1..HistoryLimit |->
     VideoName(last - HistoryLimit + i,
               services[((HistoryLimit - i) % Len(services)) + 1])]

\* the states of state.json when the first modelled run starts: no file yet, or
\* the file left by an earlier run of date 1, two posts ahead of the serial wrap
StartFiles(cat) ==
  {MissingFile(get_default_state)} \cup
  IF cat.readable /\ Len(cat.services) = NumServices
    THEN {SavedFile([get_default_state EXCEPT
                       !.last_video_date = 1, !.count_today = 1,
                       !.last_slno = MaxSlno - 2,
                       !.used_services_today = <<cat.services[1]>>,
                       !.used_videos = StartHistory(MaxSlno - 2, cat.services)])}
    ELSE {}

InitVideo ==
  /\ script = "video"
  /\ buckets \in Catalogs
  /\ vFile \in StartFiles(buckets)
  /\ sentOn = StartSent(load_state(vFile).count_today)
  /\ sentFor = sentOn
  /\ lastSerial = load_state(vFile).last_slno

IdleVideo ==
  /\ buckets = [readable |-> FALSE, services |-> <<>>]
  /\ vFile = MissingFile(get_default_state)

Init ==
  /\ today = 1
  /\ hashtags = NoHashtags
  /\ call = NoCall
  /\ automation = [p \in Procs |-> IdleProc]
  /\ runs = 0
  /\ posts = [d \in Dates |-> NoPosts]
  /\ savesFailed = [d \in Dates |-> 0]
  /\ sender = IdleSender
  /\ poster = IdlePoster
  /\ \/ InitVideo /\ gFile = MissingFile(default_state) /\ IdleDaily
     \/ InitSend /\ IdleVideo /\ IdleDaily
     \/ InitDaily /\ IdleVideo /\ gFile = MissingFile(default_state)

\* the clock passes midnight
Tick ==
  /\ today < MaxDate
  /\ today' = today + 1
  /\ UNCHANGED <<script, runs, hashtags, call, videoVars, sendVars, dailyVars, ghostVars>>

\* main(): VideoAutomation() loads the state file
VStart(p) ==
  /\ script = "video"
  /\ automation[p].pc = "idle"
  /\ runs < MaxRuns
  /\ runs' = runs + 1
  /\ automation' = [automation EXCEPT ![p] =
       [IdleProc EXCEPT !.pc = "check", !.loaded = vFile.kind, !.state = load_state(vFile)]]
  /\ UNCHANGED <<envVars, buckets, vFile, sendVars, dailyVars, ghostVars>>

\* a daily check that reports a reached quota as a failure of the run
VCheck_quota_fails(p) ==
  /\ automation[p].pc = "check"
  /\ LET s == check_daily_reset(automation[p].state, today)
     IN automation' = [automation EXCEPT ![p] =
          IF can_post_today(s)
            THEN [@ EXCEPT !.pc = "choose", !.state = s, !.slno = get_next_slno(s)]
            ELSE [@ EXCEPT !.pc = "exit", !.state = s, !.result = "False"]]
  /\ UNCHANGED <<fixedVars, buckets, vFile, sendVars, dailyVars, ghostVars>>

\* a daily check that saves the state right after the reset, before the send
VCheck_saves(p) ==
  /\ automation[p].pc = "check"
  /\ LET s == check_daily_reset(automation[p].state, today)
     IN /\ automation' = [automation EXCEPT ![p] =
             IF can_post_today(s)
               THEN [@ EXCEPT !.pc = "choose", !.state = s, !.slno = get_next_slno(s)]
               ELSE [@ EXCEPT !.pc = "exit", !.state = s, !.result = "True"]]
        /\ vFile' = SavedFile(s)
  /\ UNCHANGED <<fixedVars, buckets, sendVars, dailyVars, ghostVars>>

\* run(): check_daily_reset, can_post_today, get_next_slno
VCheck(p) ==
  /\ automation[p].pc = "check"
  /\ LET s == check_daily_reset(automation[p].state, today)
     IN automation' = [automation EXCEPT ![p] =
          IF can_post_today(s)
            THEN [@ EXCEPT !.pc = "choose", !.state = s, !.slno = get_next_slno(s)]
            ELSE [@ EXCEPT !.pc = "exit", !.state = s, !.result = "True"]]
  /\ UNCHANGED <<fixedVars, buckets, vFile, sendVars, dailyVars, ghostVars>>

\* run(): choose_service_and_style; a missing "services" key or an empty list raises
VChoose(p) ==
  /\ automation[p].pc = "choose"
  /\ IF ~buckets.readable \/ buckets.services = <<>>
       THEN automation' = [automation EXCEPT ![p] =
              [@ EXCEPT !.pc = "exit", !.result = "False", !.failed = "choose",
                        !.state = IF buckets.readable
                                    THEN choose_reset(@, buckets.services) ELSE @]]
       ELSE \E service \in Range(available_services(automation[p].state, buckets.services)) :
              automation' = [automation EXCEPT ![p] =
                [@ EXCEPT !.pc = "build", !.service = service,
                          !.state = choose_reset(@, buckets.services)]]
  /\ UNCHANGED <<fixedVars, buckets, vFile, sendVars, dailyVars, ghostVars>>

\* a build step that saves the state of the run when the build fails
VBuild_saves(p, ok) ==
  /\ automation[p].pc = "build"
  /\ automation' = [automation EXCEPT ![p] =
       IF ok THEN [@ EXCEPT !.pc = "send"]
             ELSE [@ EXCEPT !.pc = "exit", !.result = "False", !.failed = "build"]]
  /\ vFile' = IF ok THEN vFile ELSE SavedFile(automation[p].state)
  /\ UNCHANGED <<fixedVars, buckets, sendVars, dailyVars, ghostVars>>

\* run(): story, TTS, image, video composition, rename, the timeout checks
VBuild(p, ok) ==
  /\ automation[p].pc = "build"
  /\ automation' = [automation EXCEPT ![p] =
       IF ok THEN [@ EXCEPT !.pc = "send"]
             ELSE [@ EXCEPT !.pc = "exit", !.result = "False", !.failed = "build"]]
  /\ UNCHANGED <<fixedVars, buckets, vFile, sendVars, dailyVars, ghostVars>>

\* a send step that stores the serial of the post also when the delivery fails
VSend_commits(p, ok) ==
  /\ automation[p].pc = "send"
  /\ automation' = [automation EXCEPT ![p] =
       IF ok THEN [@ EXCEPT !.pc = "record", !.sent = TRUE]
             ELSE [@ EXCEPT !.pc = "exit", !.result = "False", !.failed = "send"]]
  /\ sentOn' = IF ok THEN [sentOn EXCEPT ![today] = @ + 1] ELSE sentOn
  /\ sentFor' = IF ok THEN [sentFor EXCEPT ![automation[p].state.last_video_date] = @ + 1]
                      ELSE sentFor
  /\ lastSerial' = IF ok THEN automation[p].slno ELSE lastSerial
  /\ UNCHANGED <<posts, savesFailed>>
  /\ vFile' = IF ok THEN vFile
                    ELSE SavedFile(SetItem(automation[p].state, "last_slno",
                                           automation[p].slno))
  /\ UNCHANGED <<fixedVars, buckets, sendVars, dailyVars>>

\* run(): send_to_telegram
VSend(p, ok) ==
  /\ automation[p].pc = "send"
  /\ automation' = [automation EXCEPT ![p] =
       IF ok THEN [@ EXCEPT !.pc = "record", !.sent = TRUE]
             ELSE [@ EXCEPT !.pc = "exit", !.result = "False", !.failed = "send"]]
  /\ sentOn' = IF ok THEN [sentOn EXCEPT ![today] = @ + 1] ELSE sentOn
  /\ sentFor' = IF ok THEN [sentFor EXCEPT ![automation[p].state.last_video_date] = @ + 1]
                      ELSE sentFor
  /\ lastSerial' = IF ok THEN automation[p].slno ELSE lastSerial
  /\ UNCHANGED <<posts, savesFailed>>
  /\ UNCHANGED <<fixedVars, buckets, vFile, sendVars, dailyVars>>

\* run(): "Update state"; a KeyError is caught by run's except and gives False
VRecord(p) ==
  /\ automation[p].pc = "record"
  /\ LET r == record_post(automation[p].state, automation[p].slno, automation[p].service)
     IN automation' = [automation EXCEPT ![p] =
          IF r.raised
            THEN [@ EXCEPT !.pc = "exit", !.state = r.state, !.result = "False",
                           !.failed = "record"]
            ELSE [@ EXCEPT !.pc = "save", !.state = r.state]]
  /\ UNCHANGED <<fixedVars, buckets, vFile, sendVars, dailyVars, ghostVars>>

\* a save that leaves nothing behind when it fails, not the old state file either
VSave_loses(p, ok) ==
  /\ automation[p].pc = "save"
  /\ vFile' = IF ok THEN SavedFile(Stored(automation[p].state, get_default_state))
                    ELSE MissingFile(get_default_state)
  /\ automation' = [automation EXCEPT ![p] = [@ EXCEPT !.pc = "exit", !.result = "True"]]
  /\ savesFailed' = IF ok THEN savesFailed
                          ELSE [savesFailed EXCEPT ![automation[p].state.last_video_date] = @ + 1]
  /\ UNCHANGED <<fixedVars, buckets, sendVars, dailyVars, sentOn, sentFor, lastSerial, posts>>

\* run(): save_state, which writes the temporary file and renames it onto the
\* state file, or logs the failure and removes the temporary file; then return True
VSave(p, ok) ==
  /\ automation[p].pc = "save"
  /\ vFile' = IF ok THEN SavedFile(Stored(automation[p].state, get_default_state))
                    ELSE [vFile EXCEPT !.tmp = FALSE]
  /\ automation' = [automation EXCEPT ![p] = [@ EXCEPT !.pc = "exit", !.result = "True"]]
  /\ savesFailed' = IF ok THEN savesFailed
                          ELSE [savesFailed EXCEPT ![automation[p].state.last_video_date] = @ + 1]
  /\ UNCHANGED <<fixedVars, buckets, sendVars, dailyVars, sentOn, sentFor, lastSerial, posts>>

\* main(): the process exits with run's result
VExit(p) ==
  /\ automation[p].pc = "exit"
  /\ automation' = [automation EXCEPT ![p] = IdleProc]
  /\ UNCHANGED <<fixedVars, buckets, vFile, sendVars, dailyVars, ghostVars>>

\* one step of a video run whose storage works
VideoStep(p) ==
  \/ VCheck(p)
  \/ VChoose(p)
  \/ \E ok \in BOOLEAN : VBuild(p, ok)
  \/ \E ok \in BOOLEAN : VSend(p, ok)
  \/ VRecord(p)
  \/ VSave(p, TRUE)
  \/ VExit(p)

Next ==
  \/ Tick
  \/ AllIdle /\ VStart(1)
  \/ VideoStep(1)
  \/ SendStep
  \/ DailyStep

Spec == Init /\ [][Next]_vars

(***************************************************************************)
(* The video automation with its hashtag rotation followed: the            *)
(* constructor loads hashtag_rotation.json and run() takes the hashtags    *)
(* of the caption from it when the video is built.                         *)
(***************************************************************************)
\* hashtag_rotation.json when the first modelled run starts: no file yet, or the
\* file left after the full batches of a rotation, with the one tag that remains
HashtagStarts ==
  {NoHashtags} \cup
  {[NoHashtags EXCEPT
      !.file = RotationFile(SubSeq(r, NumTags, NumTags)),
      !.atStart = RotationFile(SubSeq(r, NumTags, NumTags)),
      !.since = Range(SubSeq(r, 1, NumTags - 1)),
      !.calls = FullBatches] : r \in Shuffles(AGGRESSIVE_HASHTAGS)}

InitHashtags ==
  /\ today = 1
  /\ hashtags \in HashtagStarts
  /\ call = NoCall
  /\ automation = [p \in Procs |-> IdleProc]
  /\ runs = 0
  /\ posts = [d \in Dates |-> NoPosts]
  /\ savesFailed = [d \in Dates |-> 0]
  /\ sender = IdleSender
  /\ poster = IdlePoster
  /\ script = "video"
  /\ buckets = [readable |-> TRUE, services |-> AllServices]
  /\ vFile \in StartFiles(buckets)
  /\ sentOn = StartSent(load_state(vFile).count_today)
  /\ sentFor = sentOn
  /\ lastSerial = load_state(vFile).last_slno
  /\ gFile = MissingFile(default_state)
  /\ IdleDaily

\* main(): VideoAutomation() loads the state file and the hashtag rotation
VStartTags(p) ==
  /\ script = "video"
  /\ automation[p].pc = "idle"
  /\ runs < MaxRuns
  /\ runs' = runs + 1
  /\ automation' = [automation EXCEPT ![p] =
       [IdleProc EXCEPT !.pc = "check", !.loaded = vFile.kind, !.state = load_state(vFile)]]
  /\ \E l \in load_hashtag_rotation(hashtags.file) :
       hashtags' = [hashtags EXCEPT !.file = l.file, !.rotation = l.rotation,
                                    !.selected = <<>>, !.atStart = hashtags.file]
  /\ UNCHANGED <<script, today, call, buckets, vFile, sendVars, dailyVars, ghostVars>>

\* run(): the build steps and then get_next_hashtags(15) for the caption
VBuildTags(p, ok) ==
  /\ automation[p].pc = "build"
  /\ automation' = [automation EXCEPT ![p] =
       IF ok THEN [@ EXCEPT !.pc = "send"]
             ELSE [@ EXCEPT !.pc = "exit", !.result = "False", !.failed = "build"]]
  /\ IF ok
       THEN \E g \in get_next_hashtags(hashtags.rotation, TagsPerPost) :
              hashtags' = [hashtags EXCEPT
                             !.rotation = g.rotation,
                             !.file = RotationFile(g.rotation),
                             !.selected = g.selected,
                             !.since = (IF g.refilled THEN {} ELSE @) \cup Range(g.selected),
                             !.calls = (IF g.refilled THEN 0 ELSE @) + 1]
       ELSE hashtags' = hashtags
  /\ UNCHANGED <<script, today, runs, call, buckets, vFile, sendVars, dailyVars, ghostVars>>

NextHashtags ==
  \/ Tick
  \/ VStartTags(1)
  \/ VCheck(1)
  \/ VChoose(1)
  \/ \E ok \in BOOLEAN : VBuildTags(1, ok)
  \/ \E ok \in BOOLEAN : VSend(1, ok)
  \/ VRecord(1)
  \/ VSave(1, TRUE)
  \/ VExit(1)

SpecHashtags == InitHashtags /\ [][NextHashtags]_vars

(***************************************************************************)
(* One call of send_to_telegram, of the script given by script.  The       *)
(* inputs are whether the Telegram credentials are set and what each POST  *)
(* attempt would meet: status 200, another status, or an exception of      *)
(* requests.post (timeout, connection error).                              *)
(***************************************************************************)
Responses == {"200", "error", "exception"}

\* the call returns normally: True in VideoAutomation, None in the scripts
Reported(who, success) ==
  IF who = "video" THEN (IF success THEN "True" ELSE "False")
  ELSE IF success THEN "returned" ELSE "raised"

\* send_to_telegram without credentials: VideoAutomation catches its own
\* RuntimeError, the scripts raise it, the PIL fallback prints and returns
without_credentials(who) ==
  IF who = "pil" THEN "returned" ELSE Reported(who, FALSE)

\* the attempts a call may make: range(MAX_RETRIES), range(3); the PIL fallback
\* posts once
max_attempts(who) == IF who = "pil" THEN 1 ELSE MAX_RETRIES

\* what the call does after the attempt number i met the response r: "post" to
\* go on with the next attempt, or the way it ends
after_attempt(who, r, i) ==
  IF who = "pil" THEN "returned"
  ELSE IF r = "200" THEN Reported(who, TRUE)
  ELSE IF i = MAX_RETRIES THEN Reported(who, FALSE)
  ELSE "post"

InitCall ==
  /\ today = 1
  /\ hashtags = NoHashtags
  /\ automation = [p \in Procs |-> IdleProc]
  /\ runs = 0
  /\ posts = [d \in Dates |-> NoPosts]
  /\ savesFailed = [d \in Dates |-> 0]
  /\ sender = IdleSender
  /\ poster = IdlePoster
  /\ script \in Scripts
  /\ IdleVideo
  /\ gFile = MissingFile(default_state)
  /\ IdleDaily
  /\ sentOn = StartSent(0)
  /\ sentFor = sentOn
  /\ lastSerial = 0
  /\ \E c \in BOOLEAN, rs \in [1..MAX_RETRIES -> Responses] :
       call = [sender |-> script, credentials |-> c, responses |-> rs, attempts |-> 0,
               pc |-> "start", result |-> "none"]

\* send_to_telegram: the test of the credentials
CallStart ==
  /\ call.pc = "start"
  /\ call' = IF call.credentials THEN [call EXCEPT !.pc = "post"]
             ELSE [call EXCEPT !.pc = "done", !.result = without_credentials(call.sender)]
  /\ UNCHANGED <<script, today, runs, hashtags, videoVars, sendVars, dailyVars, ghostVars>>

\* send_to_telegram: one requests.post and what follows it in the loop
CallPost ==
  /\ call.pc = "post"
  /\ call.attempts < max_attempts(call.sender)
  /\ LET i == call.attempts + 1
         next == after_attempt(call.sender, call.responses[i], i)
     IN call' = IF next = "post" THEN [call EXCEPT !.attempts = i]
                ELSE [call EXCEPT !.attempts = i, !.pc = "done", !.result = next]
  /\ UNCHANGED <<script, today, runs, hashtags, videoVars, sendVars, dailyVars, ghostVars>>

NextCall ==
  \/ CallStart
  \/ CallPost

SpecCall == InitCall /\ [][NextCall]_vars

(***************************************************************************)
(* The same runs on a disk that may damage the state file between two      *)
(* runs: the file is then still there and no longer parses as JSON.        *)
(***************************************************************************)
NoProcess ==
  /\ AllIdle
  /\ sender.pc = "idle"
  /\ poster.pc = "idle"

Corrupt ==
  /\ NoProcess
  /\ runs < MaxRuns
  /\ \/ script = "video" /\ vFile.kind # "corrupt"
        /\ vFile' = CorruptFile(get_default_state) /\ UNCHANGED <<gFile, dFile>>
     \/ script = "send" /\ gFile.kind # "corrupt"
        /\ gFile' = CorruptFile(default_state) /\ UNCHANGED <<vFile, dFile>>
     \/ script \in DailyScripts /\ dFile.kind # "corrupt"
        /\ dFile' = CorruptFile(daily_defaults) /\ UNCHANGED <<vFile, gFile>>
  /\ UNCHANGED <<fixedVars, buckets, automation, sender, resolvable, poster, ghostVars>>

NextCorrupt ==
  \/ Next
  \/ Corrupt

SpecCorrupt == Init /\ [][NextCorrupt]_vars

(***************************************************************************)
(* Daily quota                                                             *)
(***************************************************************************)
\* the daily limit of the script that runs
Limit == IF script = "video" THEN DAILY_VIDEO_LIMIT ELSE DAILY_POST_TARGET

\* count_today as the state file of the script that runs holds it
PersistedCount ==
  IF script = "video" THEN Get(load_state(vFile), "count_today", 0)
  ELSE gFile.data.count_today

QuotaScripts == {"video", "send"}

\* C1, as the specification states it: the persisted count_today never exceeds
\* the daily limit, and the posts delivered on one calendar date never exceed it
QuotaPerCalendarDate ==
  script \in QuotaScripts =>
    /\ PersistedCount <= Limit
    /\ \A d \in Dates : sentOn[d] <= Limit

\* C1, amended: the persisted count_today never exceeds the daily limit, and the
\* posts delivered by the runs whose daily check fell on one date never exceed it
DailyQuota ==
  script \in QuotaScripts =>
    /\ PersistedCount <= Limit
    /\ \A d \in Dates : sentFor[d] <= Limit

\* a video run finds the quota of its date used up by three delivered posts
QuotaReachedWitness ==
  /\ script = "video"
  /\ automation[1].pc = "exit"
  /\ automation[1].result = "True"
  /\ ~automation[1].sent
  /\ PersistedCount = DAILY_VIDEO_LIMIT
  /\ sentFor[automation[1].state.last_video_date] = DAILY_VIDEO_LIMIT

(***************************************************************************)
(* Record only after delivery                                              *)
(***************************************************************************)
\* this step writes a state file of the video automation that shows a new post
VideoPostPersisted ==
  /\ vFile'.kind = "ok"
  /\ load_state(vFile').last_slno # Get(load_state(vFile), "last_slno", 0)

\* this step writes a state file of generate_and_send.py that shows a new post
SendPostPersisted ==
  /\ gFile'.kind = "ok"
  /\ gFile'.data.last_slno # gFile.data.last_slno

\* this step writes a state file of a daily script that marks the image done
ImagePersisted ==
  /\ dFile'.data.image_generated_today
  /\ ~dFile.data.image_generated_today \/ Len(dFile'.data.used_combinations) >
                                            Len(dFile.data.used_combinations)
  /\ poster.pc = "record_image"

\* this step writes a state file of a daily script that marks the video done
VideoReelPersisted ==
  /\ dFile'.data.video_generated_today
  /\ ~dFile.data.video_generated_today
  /\ poster.pc = "record_video"

\* C2: a state file comes to show a new post only in a run whose delivery of
\* that post succeeded; a run whose delivery failed or was skipped persists none
RecordOnlyAfterDelivery ==
  [][/\ (VideoPostPersisted => automation[1].sent)
     /\ (SendPostPersisted => sender.sent)
     /\ (ImagePersisted => "image" \in poster.sent)
     /\ (VideoReelPersisted => "video" \in poster.sent)]_vars

(***************************************************************************)
(* State-load fallback                                                     *)
(***************************************************************************)
\* C3: a run that finds a state file that does not parse does not crash and
\* behaves as a first run: it works on the default state, and when its delivery
\* succeeds it records the post and persists it
CorruptLoadIsFirstRun ==
  /\ script = "video" /\ automation[1].pc # "idle" /\ automation[1].loaded = "corrupt" =>
        /\ automation[1].state.present = VideoKeys
        /\ automation[1].pc = "exit" /\ automation[1].sent =>
              /\ automation[1].result = "True"
              /\ vFile = SavedFile(automation[1].state)
  /\ script = "send" /\ sender.pc # "idle" /\ sender.loaded = "corrupt" =>
        /\ sender.result # "crash"
        /\ sender.pc = "exit" /\ sender.sent => gFile = SavedFile(sender.state)
  /\ script \in DailyScripts /\ poster.pc # "idle" /\ poster.loaded = "corrupt" =>
        /\ poster.pc = "exit" /\ poster.sent # {} => dFile = SavedFile(poster.state)

(***************************************************************************)
(* No double-posting on retry                                              *)
(***************************************************************************)
\* C4: when a run has delivered a message, the state file shows that delivery
\* by the time the run ends, whatever happened after the delivery, so that the
\* next run does not deliver the same post again
DeliveredIsPersisted ==
  /\ script = "video" /\ automation[1].pc = "exit" /\ automation[1].sent =>
        /\ vFile.kind = "ok"
        /\ vFile.data.last_slno = automation[1].slno
        /\ vFile.data.count_today > 0
  /\ script \in DailyScripts /\ poster.pc = "exit" /\ "image" \in poster.sent =>
        /\ dFile.kind = "ok"
        /\ dFile.data.image_generated_today
        /\ dFile.data.last_post_date = poster.state.last_post_date
  /\ script \in DailyScripts /\ poster.pc = "exit" /\ "video" \in poster.sent =>
        /\ dFile.kind = "ok"
        /\ dFile.data.video_generated_today
        /\ dFile.data.last_post_date = poster.state.last_post_date

(***************************************************************************)
(* Date rollover reset                                                     *)
(***************************************************************************)
\* this step is the daily check of a video run
VCheckStep == automation[1].pc = "check" /\ automation'[1].pc # "check"

\* this step is the daily check of a run of generate_and_send.py
GPickStep == sender.pc = "pick" /\ sender'.pc # "pick"

\* C5: a daily check made on a date that differs from the stored last date sets
\* the counter to 0, clears the services used today and stores the date, whether
\* or not a post was recorded since the last check; a check made on the stored
\* date resets nothing
ResetOnDateChange ==
  [][/\ VCheckStep =>
          LET s == automation[1].state
              t == automation'[1].state
          IN IF Get(s, "last_video_date", NoneDate) # today
               THEN /\ {"last_video_date", "count_today", "used_services_today"}
                         \subseteq t.present
                    /\ t.last_video_date = today
                    /\ t.count_today = 0
                    /\ t.used_services_today = <<>>
               ELSE t = s
     /\ GPickStep =>
          LET s == sender.state
              t == sender'.state
          IN IF s.last_post_date # today
               THEN t.last_post_date = today /\ t.count_today = 0 /\ t.used_today = <<>>
               ELSE /\ t.last_post_date = s.last_post_date
                    /\ t.count_today = s.count_today
                    /\ t.used_today = s.used_today]_vars

\* a video run has reset a counter that a run of an earlier date had persisted
RolloverWitness ==
  /\ script = "video"
  /\ automation[1].pc = "choose"
  /\ vFile.kind = "ok"
  /\ vFile.data.count_today > 0
  /\ vFile.data.last_video_date # automation[1].state.last_video_date
  /\ automation[1].state.count_today = 0
  /\ automation[1].state.used_services_today = <<>>

(***************************************************************************)
(* Category avoidance                                                      *)
(***************************************************************************)
VChooseStep == automation[1].pc = "choose" /\ automation'[1].pc = "build"

GChooseStep == sender.pc = "choose" /\ sender'.pc = "build"

\* C6: the service a selection returns is one of the catalog and is not among
\* the services used today, unless every service of the catalog has been used
CategoryAvoidance ==
  [][/\ VChooseStep =>
          LET used == Range(Get(automation[1].state, "used_services_today", <<>>))
              catalog == Range(buckets.services)
          IN /\ automation'[1].service \in catalog
             /\ automation'[1].service \notin used \/ catalog \subseteq used
     /\ GChooseStep =>
          LET used == Range(sender.state.used_today)
              catalog == Range(SERVICE_KEYS)
          IN /\ sender'.service \in catalog
             /\ sender'.service \notin used \/ catalog \subseteq used]_vars

\* all services of the catalog but one were used today and the selection of a
\* video run has returned the remaining one
LastServiceWitness ==
  /\ script = "video"
  /\ automation[1].pc = "build"
  /\ Len(buckets.services) >= 3
  /\ Len(automation[1].state.used_services_today) = Len(buckets.services) - 1
  /\ Range(buckets.services) \ Range(automation[1].state.used_services_today)
       = {automation[1].service}

(***************************************************************************)
(* Combination avoidance                                                   *)
(***************************************************************************)
DChooseStep == poster.pc = "choose" /\ poster'.pc \in {"build_image", "choose_video"}

\* every combination of every service that has an image is in the history
Exhausted(used) ==
  \A service \in DailyServices :
    HasImage(resolvable, service) => \A c \in Combinations(service) : KeyOf(c) \in used

\* C7: the key of the combination that choose_service_and_variant returns is not
\* in used_combinations, unless every combination of every service that has an
\* image is in the history and the call empties the history
CombinationAvoidance ==
  [][DChooseStep =>
       LET used == Range(poster.state.used_combinations)
       IN \/ KeyOf(poster'.chosen) \notin used
          \/ Exhausted(used) /\ poster'.state.used_combinations = <<>>]_vars

\* a run that has only the video left to post has chosen a combination while the
\* history of the date held the combination of the image post
FreshCombinationWitness ==
  /\ poster.pc = "choose_video"
  /\ poster.state.image_generated_today
  /\ poster.state.used_combinations # <<>>
  /\ KeyOf(poster.chosen) \notin Range(poster.state.used_combinations)
  /\ poster.chosen.service = poster.state.last_service_index + 1

(***************************************************************************)
(* Quota reached means no selection                                        *)
(***************************************************************************)
PostingSteps == {"choose", "build", "send"}

\* C8: when count_today has reached the daily limit on the date of the check,
\* the quota test fails and the run ends without a selection, a build or a
\* delivery: the video run returns True, generate_and_send.py goes on to save
QuotaReachedNoPost ==
  [][/\ VCheckStep /\ automation'[1].state.count_today >= DAILY_VIDEO_LIMIT =>
          /\ automation'[1].pc = "exit"
          /\ automation'[1].result = "True"
     /\ automation[1].pc \in PostingSteps =>
          /\ automation[1].state.count_today < DAILY_VIDEO_LIMIT
          /\ ~automation[1].sent
     /\ automation[1].pc = "exit" /\ automation[1].state.count_today >= DAILY_VIDEO_LIMIT
          /\ ~automation[1].sent => vFile' = vFile /\ UNCHANGED ghostVars
     /\ GPickStep /\ sender'.state.count_today >= DAILY_POST_TARGET =>
          sender'.pc = "save"
     /\ sender.pc \in PostingSteps =>
          /\ sender.state.count_today < DAILY_POST_TARGET
          /\ ~sender.sent
     /\ sender.pc = "save" /\ ~sender.sent =>
          /\ sender.state.count_today >= DAILY_POST_TARGET
          /\ UNCHANGED ghostVars]_vars

\* a run of generate_and_send.py has found five posts recorded for its date and
\* goes to save_state without a post
TargetReachedWitness ==
  /\ script = "send"
  /\ sender.pc = "save"
  /\ ~sender.sent
  /\ sender.state.count_today = DAILY_POST_TARGET
  /\ sentFor[sender.state.last_post_date] = DAILY_POST_TARGET

(***************************************************************************)
(* Serial wrap                                                             *)
(***************************************************************************)
\* the serial that follows last: last + 1, and 1 after 999
Following(last) == IF last = MaxSlno THEN 1 ELSE last + 1

\* C9: the serial a run gives its post is the last serial + 1, and 1 when the
\* last serial is 999; it is always in 1..999, and so is a persisted serial
SerialWraps ==
  /\ script = "video" /\ automation[1].pc \in {"choose", "build", "send", "record"} =>
        /\ automation[1].slno = Following(Get(automation[1].state, "last_slno", 0))
        /\ automation[1].slno \in 1..MaxSlno
  /\ script = "video" /\ vFile.kind = "ok" => vFile.data.last_slno \in 1..MaxSlno
  /\ script = "send" /\ sender.pc \in {"send", "record"} =>
        /\ sender.slno = Following(sender.state.last_slno)
        /\ sender.slno \in 1..MaxSlno
  /\ script = "send" /\ gFile.kind = "ok" => gFile.data.last_slno \in 0..MaxSlno

\* the last serial is 999 and the video run is about to send the post with serial 1
WrapWitness ==
  /\ script = "video"
  /\ automation[1].pc = "send"
  /\ automation[1].state.last_slno = MaxSlno
  /\ automation[1].slno = 1

(***************************************************************************)
(* Idempotence of the quota check                                          *)
(***************************************************************************)
\* C10, as the specification states it: the daily check and the quota test of a
\* run never change count_today
CheckKeepsCount ==
  [][VCheckStep =>
       automation'[1].state.count_today = Get(automation[1].state, "count_today", 0)]_vars

\* C10, amended: the daily check and the quota test of a run made on the stored
\* last date change neither count_today nor the state file, however many runs
\* make them without a post recorded in between, and the quota test answers by
\* that count
SameDateCheckKeepsCount ==
  [][VCheckStep /\ Get(automation[1].state, "last_video_date", NoneDate) = today =>
       /\ automation'[1].state.count_today = Get(automation[1].state, "count_today", 0)
       /\ vFile' = vFile
       /\ (automation'[1].pc = "choose") <=>
             (Get(automation[1].state, "count_today", 0) < DAILY_VIDEO_LIMIT)]_vars

\* no post was delivered since the one of the start file, and a second run of
\* that date has made the check and kept the count of one post
SecondCheckWitness ==
  /\ script = "video"
  /\ runs >= 2
  /\ sentOn = StartSent(1)
  /\ automation[1].pc = "choose"
  /\ vFile.kind = "ok"
  /\ vFile.data.last_video_date = automation[1].state.last_video_date
  /\ vFile.data.count_today > 0
  /\ automation[1].state.count_today = vFile.data.count_today

(***************************************************************************)
(* Build failure leaves state untouched                                    *)
(***************************************************************************)
\* C11: a run whose build step fails ends with a failure result, has sent
\* nothing, and no step of it, from the load to the exit, changes the state file
BuildFailureKeepsState ==
  [][/\ script = "video" /\ automation[1].pc \in {"idle", "check", "choose", "build"} =>
          vFile' = vFile /\ UNCHANGED ghostVars
     /\ automation[1].pc = "build" /\ automation'[1].pc = "exit" =>
          /\ automation'[1].result = "False"
          /\ automation'[1].failed = "build"
          /\ ~automation'[1].sent
     /\ automation[1].pc = "exit" /\ automation[1].failed = "build" =>
          /\ vFile' = vFile
          /\ UNCHANGED ghostVars
          /\ automation'[1].pc \in {"exit", "idle"}
     /\ script = "send" /\ sender.pc \in {"idle", "pick", "choose", "build"} =>
          gFile' = gFile /\ UNCHANGED ghostVars
     /\ sender.pc = "build" /\ sender'.pc = "exit" =>
          /\ sender'.result = "crash"
          /\ sender'.failed = "build"
          /\ ~sender'.sent
     /\ sender.pc = "exit" /\ sender.failed = "build" =>
          /\ gFile' = gFile
          /\ UNCHANGED ghostVars
          /\ sender'.pc \in {"exit", "idle"}]_vars

\* the build of a video run has failed after the daily check had reset the
\* counter in memory, and the state file still holds the state of the earlier date
BuildFailedWitness ==
  /\ script = "video"
  /\ automation[1].pc = "exit"
  /\ automation[1].failed = "build"
  /\ automation[1].result = "False"
  /\ vFile.kind = "ok"
  /\ vFile.data.last_video_date # automation[1].state.last_video_date
  /\ vFile.data.count_today > 0

(***************************************************************************)
(* Concurrent invocations                                                  *)
(***************************************************************************)
\* two processes of the video automation may run at the same time, each with
\* its own VideoAutomation object, on the one state file
InitConcurrent ==
  /\ Init
  /\ script = "video"
  /\ buckets.readable
  /\ buckets.services = AllServices

NextConcurrent ==
  \/ Tick
  \/ \E p \in Procs : VStart(p)
  \/ \E p \in Procs : VideoStep(p)

SpecConcurrent == InitConcurrent /\ [][NextConcurrent]_vars

\* C12: also when invocations overlap, the posts delivered by the runs whose daily
\* check fell on one date do not exceed the daily limit
ConcurrentQuota ==
  \A d \in Dates : sentFor[d] <= DAILY_VIDEO_LIMIT

(***************************************************************************)
(* Atomic save: the process may be killed at any step of a save_state.     *)
(***************************************************************************)
\* VideoAutomation.save_state killed: before temp_path.replace the state file
\* is the previous one, after it the new one
VSaveCrash(p) ==
  /\ automation[p].pc = "save"
  /\ vFile' \in {vFile, [vFile EXCEPT !.tmp = TRUE],
                SavedFile(Stored(automation[p].state, get_default_state))}
  /\ automation' = [automation EXCEPT ![p] =
       [@ EXCEPT !.pc = "exit", !.result = "killed", !.failed = "save"]]
  /\ UNCHANGED <<fixedVars, buckets, sendVars, dailyVars, ghostVars>>

\* save_state of generate_and_send.py killed: open(STATE_PATH, 'w') empties the
\* file and json.dump fills it, so the file is the previous one (not opened
\* yet), a part of the new text, or the new one
GSaveCrash ==
  /\ sender.pc = "save"
  /\ gFile' \in {gFile, CorruptFile(default_state),
                SavedFile(Stored(sender.state, default_state))}
  /\ sender' = [sender EXCEPT !.pc = "exit", !.result = "killed", !.failed = "save"]
  /\ UNCHANGED <<fixedVars, videoVars, dailyVars, ghostVars>>

\* the dict a daily script is about to save at this point of main()
DailySaving ==
  CASE poster.pc = "reset" -> reset_daily_state(poster.state, today)
    [] poster.pc = "record_image" -> record_image(poster.state, poster.chosen)
    [] OTHER -> record_video(poster.state, poster.chosen, poster.video_service)

\* save_state of a daily script killed, in reset_daily_state or after a post
DSaveCrash ==
  /\ \/ poster.pc = "reset" /\ poster.state.last_post_date # today
     \/ poster.pc \in {"record_image", "record_video"}
  /\ dFile' \in {dFile, CorruptFile(daily_defaults),
                SavedFile(Stored(DailySaving, daily_defaults))}
  /\ poster' = [poster EXCEPT !.state = DailySaving, !.pc = "exit", !.result = "killed"]
  /\ UNCHANGED <<fixedVars, videoVars, sendVars, resolvable, ghostVars>>

NextCrash ==
  \/ Next
  \/ VSaveCrash(1)
  \/ GSaveCrash
  \/ DSaveCrash

SpecCrash == Init /\ [][NextCrash]_vars

\* C13: whenever a process is killed during a save, the state file holds the
\* complete previous state or the complete new state, never a part of one
AtomicSave ==
  /\ vFile.kind # "corrupt"
  /\ gFile.kind # "corrupt"
  /\ dFile.kind # "corrupt"

NoUnhandledException ==
  /\ automation[1].result # "crash"
  /\ sender.result # "crash"
  /\ poster.result # "crash"

(***************************************************************************)
(* Empty catalog                                                           *)
(***************************************************************************)
\* no image file of any service is on disk
NoImage == \A x \in DailyServices : resolvable[x] = 0

\* buckets.json does not parse, or its services list is empty
NoService == ~buckets.readable \/ buckets.services = <<>>

\* C16: with no usable asset the selection fails with an error (the daily script
\* ends in RuntimeError, the video run returns False), no run builds, sends or
\* records a post, and the state file shows none
EmptyCatalogFails ==
  /\ script \in DailyScripts /\ NoImage =>
        /\ poster.pc \in {"idle", "reset", "choose", "exit"}
        /\ poster.pc = "exit" => poster.result = "crash" /\ poster.chosen = NoCombination
        /\ poster.sent = {}
        /\ ~dFile.data.image_generated_today
        /\ ~dFile.data.video_generated_today
        /\ dFile.data.used_combinations = <<>>
  /\ script = "video" /\ NoService =>
        /\ automation[1].pc \in {"idle", "check", "choose", "exit"}
        /\ automation[1].pc = "exit" =>
              automation[1].result = "False" /\ automation[1].failed = "choose"
        /\ ~automation[1].sent
        /\ vFile.kind = "missing"
        /\ sentOn = StartSent(0)

\* a daily run that found no image has ended in the error of the selection,
\* after reset_daily_state had saved the new date
NoImageWitness ==
  /\ script \in DailyScripts
  /\ NoImage
  /\ poster.pc = "exit"
  /\ poster.result = "crash"
  /\ dFile.kind = "ok"
  /\ dFile.data.last_post_date = today

VEnters(pc) == automation'[1].pc = pc /\ automation[1].pc # pc
GEnters(pc) == sender'.pc = pc /\ sender.pc # pc
DEnters(pc) == poster'.pc = pc /\ poster.pc # pc

SerialCommit ==
  [][/\ script = "video" =>
          /\ automation[1].pc = "idle" => load_state(vFile).last_slno = lastSerial
          /\ automation[1].pc = "check" =>
               automation'[1].state.last_slno = automation[1].state.last_slno
          /\ load_state(vFile').last_slno # load_state(vFile).last_slno =>
               /\ automation[1].pc = "save"
               /\ automation[1].sent
               /\ load_state(vFile').last_slno = automation[1].slno
               /\ lastSerial = automation[1].slno
          /\ sentOn' # sentOn =>
               /\ lastSerial' = automation[1].slno
               /\ lastSerial' = Following(lastSerial)
          /\ VEnters("exit") /\ automation'[1].failed # "none" =>
               /\ load_state(vFile').last_slno = lastSerial
               /\ lastSerial' = lastSerial
     /\ script = "send" =>
          /\ sender.pc = "idle" /\ gFile.kind # "corrupt" => gFile.data.last_slno = lastSerial
          /\ sender.pc \in {"pick", "choose", "build"} =>
               sender'.state.last_slno = sender.state.last_slno
          /\ gFile'.data.last_slno # gFile.data.last_slno =>
               /\ sender.pc = "save"
               /\ sender.sent
               /\ gFile'.data.last_slno = sender.slno
               /\ lastSerial = sender.slno
          /\ sentOn' # sentOn =>
               /\ lastSerial' = sender.slno
               /\ lastSerial' = Following(lastSerial)
          /\ GEnters("exit") /\ sender'.failed # "none" =>
               /\ gFile'.data.last_slno = lastSerial
               /\ lastSerial' = lastSerial]_vars

\* after the posts with the serials 998 and 999 a run has computed the serial 1
\* and failed in the delivery: the state file still holds 999
FailedRunKeepsSerialWitness ==
  /\ script = "video"
  /\ automation[1].pc = "exit"
  /\ automation[1].failed = "send"
  /\ automation[1].slno = 1
  /\ lastSerial = MaxSlno
  /\ vFile.kind = "ok"
  /\ vFile.data.last_slno = MaxSlno

(***************************************************************************)
(* Effect of recording a post                                              *)
(***************************************************************************)
\* C19: from the daily check to the delivery the counter and the stored date
\* stay as the check left them, and the record of a delivered post adds one to
\* count_today, appends the chosen service to the used-today list, appends the
\* key of the post to the history, sets last_slno to the serial of the post and
\* keeps the stored date; the state so recorded is the one the run saves
RecordEffect ==
  [][/\ script = "video" /\ automation[1].pc \in {"choose", "build", "send"} =>
          /\ automation'[1].state.count_today = automation[1].state.count_today
          /\ automation'[1].state.last_video_date = automation[1].state.last_video_date
     /\ script = "video" /\ automation[1].pc = "record" /\ VEnters("save") =>
          LET old == automation[1].state
              new == automation'[1].state
              key == VideoName(automation[1].slno, automation[1].service)
          IN /\ new.count_today = old.count_today + 1
             /\ new.used_services_today = Append(old.used_services_today, automation[1].service)
             /\ new.used_videos[Len(new.used_videos)] = key
             /\ \/ new.used_videos = Append(old.used_videos, key)
                \/ Len(old.used_videos) = HistoryLimit
             /\ new.last_slno = automation[1].slno
             /\ new.last_video_date = old.last_video_date
     /\ script = "video" /\ automation[1].pc = "save" /\ VEnters("exit") =>
          load_state(vFile') = automation[1].state
     /\ script = "send" /\ sender.pc \in {"choose", "build", "send"} =>
          /\ sender'.state.count_today = sender.state.count_today
          /\ sender'.state.last_post_date = sender.state.last_post_date
     /\ script = "send" /\ sender.pc = "record" /\ GEnters("save") =>
          LET old == sender.state
              new == sender'.state
          IN /\ new.count_today = old.count_today + 1
             /\ new.used_today = Append(old.used_today, sender.service)
             /\ new.generated_images = Append(old.generated_images,
                                              <<sender.slno, sender.service>>)
             /\ new.last_slno = sender.slno
             /\ new.last_post_date = old.last_post_date
     /\ script = "send" /\ sender.pc = "save" /\ GEnters("exit") =>
          gFile'.data = sender.state]_vars

(***************************************************************************)
(* Bounded history                                                         *)
(***************************************************************************)
\* C20: used_videos never has more than 30 entries, in the state file or in
\* memory; the record of a post appends its name and, when the list then has 31
\* entries, drops the oldest one; and the list holds the posts in posting order,
\* each serial following the one before it and the last one being last_slno
BoundedHistory ==
  script = "video" =>
    /\ Len(load_state(vFile).used_videos) <= HistoryLimit
    /\ Len(automation[1].state.used_videos) <= HistoryLimit
    /\ LET list == load_state(vFile).used_videos
       IN /\ \A i \in 1..(Len(list) - 1) : list[i + 1][1] = Following(list[i][1])
          /\ list # <<>> => list[Len(list)][1] = load_state(vFile).last_slno
    /\ automation[1].pc = "save" =>
         LET old == load_state(vFile).used_videos
             new == automation[1].state.used_videos
             key == VideoName(automation[1].slno, automation[1].service)
         IN new = IF Len(old) < HistoryLimit THEN Append(old, key)
                  ELSE Append(Tail(old), key)

\* a run has recorded a post on top of a history of 30 posts: the list still
\* has 30 entries, the oldest post is gone and the new one is the last
EvictionWitness ==
  /\ script = "video"
  /\ automation[1].pc = "save"
  /\ Len(load_state(vFile).used_videos) = HistoryLimit
  /\ Len(automation[1].state.used_videos) = HistoryLimit
  /\ automation[1].state.used_videos[1] = load_state(vFile).used_videos[2]
  /\ automation[1].state.used_videos[HistoryLimit] =
       VideoName(automation[1].slno, automation[1].service)

(***************************************************************************)
(* Rotation start                                                          *)
(***************************************************************************)
\* the service of the image delivered last, 0 when no image has been delivered
LastImageService ==
  LET ds == {d \in Dates : posts[d].images > 0}
  IN IF ds = {} THEN 0
     ELSE posts[CHOOSE d \in ds : \A e \in ds : e <= d].service

AllResolvable == \A x \in DailyServices : resolvable[x] = 1

\* C21: with every image file on disk, the image a daily run delivers is of the
\* service that follows, in catalog order, the service of the image delivered
\* last, and so of another service than that one
RotationAdvances ==
  [][(/\ script \in DailyScripts
      /\ AllResolvable
      /\ poster.pc = "send_image"
      /\ posts' # posts
      /\ LastImageService # 0) =>
          /\ poster.chosen.service # LastImageService
          /\ poster.chosen.service = (LastImageService % NumDailyServices) + 1]_vars

(***************************************************************************)
(* Missed save: save_state of the video automation may fail (disk full,    *)
(* no permission); it catches the exception.                               *)
(***************************************************************************)
NextSaveFails ==
  \/ Next
  \/ VSave(1, FALSE)

SpecSaveFails == Init /\ [][NextSaveFails]_vars

ResetPersisted ==
  /\ script = "video" /\ automation[1].pc = "exit" =>
        /\ load_state(vFile).last_video_date = automation[1].state.last_video_date
        /\ load_state(vFile).count_today = automation[1].state.count_today
        /\ load_state(vFile).used_services_today = automation[1].state.used_services_today
  /\ script = "send" /\ sender.pc = "exit" /\ sender.loaded # "corrupt" =>
        /\ gFile.data.last_post_date = sender.state.last_post_date
        /\ gFile.data.count_today = sender.state.count_today
        /\ gFile.data.used_today = sender.state.used_today
  /\ script \in DailyScripts /\ poster.pc = "exit" =>
        /\ dFile.data.last_post_date = poster.state.last_post_date
        /\ dFile.data.image_generated_today = poster.state.image_generated_today
        /\ dFile.data.video_generated_today = poster.state.video_generated_today

(***************************************************************************)
(* Quota-reached run is a successful no-op                                 *)
(***************************************************************************)
\* C24: a run that comes to its daily check on the date of its state with the
\* quota reached (count_today at the limit, or both flags of the daily script
\* set) goes to its end from there, with the result of a success (True, exit
\* code 0), delivers nothing and leaves the content of the state file as it was
QuotaReachedNoOp ==
  [][/\ (/\ script = "video"
         /\ automation[1].pc = "check"
         /\ automation[1].state.last_video_date = today
         /\ automation[1].state.count_today >= DAILY_VIDEO_LIMIT
         /\ automation' # automation) =>
          /\ automation'[1].pc = "exit"
          /\ automation'[1].result = "True"
          /\ ~automation'[1].sent
          /\ automation'[1].state = automation[1].state
          /\ vFile' = vFile
          /\ UNCHANGED ghostVars
     /\ (/\ script = "video"
         /\ automation[1].pc = "exit"
         /\ automation[1].result = "True"
         /\ ~automation[1].sent) =>
          /\ vFile' = vFile
          /\ UNCHANGED ghostVars
          /\ load_state(vFile) = automation[1].state
     /\ (/\ script = "send"
         /\ sender.pc = "pick"
         /\ sender.state.last_post_date = today
         /\ sender.state.count_today >= DAILY_POST_TARGET
         /\ sender' # sender) =>
          /\ sender'.pc = "save"
          /\ ~sender'.sent
          /\ gFile' = gFile
          /\ UNCHANGED ghostVars
     /\ (/\ script = "send"
         /\ sender.pc = "save"
         /\ ~sender.sent
         /\ sender.loaded = "ok"
         /\ sender' # sender) =>
          /\ sender'.pc = "exit"
          /\ sender'.result = "0"
          /\ gFile'.data.count_today = gFile.data.count_today
          /\ gFile'.data.used_today = gFile.data.used_today
          /\ gFile'.data.last_slno = gFile.data.last_slno
          /\ UNCHANGED ghostVars
     /\ (/\ script \in DailyScripts
         /\ poster.pc = "reset"
         /\ poster.state.last_post_date = today
         /\ poster.state.image_generated_today
         /\ poster.state.video_generated_today
         /\ poster' # poster) =>
          /\ poster'.pc = "exit"
          /\ poster'.result = "0"
          /\ poster'.sent = {}
          /\ dFile' = dFile
          /\ UNCHANGED ghostVars
     /\ (/\ script \in DailyScripts
         /\ poster.pc = "exit"
         /\ poster.result = "0"
         /\ poster.sent = {}
         /\ poster.chosen = NoCombination) =>
          /\ dFile' = dFile
          /\ UNCHANGED ghostVars
          /\ dFile.data = poster.state]_vars

\* a video run that found the quota of today reached is at its end: result
\* True, nothing sent, and the state file holds the state it loaded
QuotaReachedExitWitness ==
  /\ script = "video"
  /\ automation[1].pc = "exit"
  /\ automation[1].result = "True"
  /\ ~automation[1].sent
  /\ automation[1].loaded = "ok"
  /\ automation[1].state.last_video_date = today
  /\ automation[1].state.count_today = DAILY_VIDEO_LIMIT
  /\ load_state(vFile) = automation[1].state

(***************************************************************************)
(* Video differs from image                                                *)
(***************************************************************************)
\* C25: the service of a video reel that is delivered differs from the service
\* of the image delivered for the same date, by the same run or by an earlier
\* one, and from the service of every image delivered before
VideoDiffersFromImage ==
  [][(/\ script \in DailyScripts
      /\ poster.pc = "send_video"
      /\ posts' # posts) =>
          /\ poster.video_service \in DailyServices
          /\ poster.video_service # poster.chosen.service
          /\ \A d \in Dates :
               posts[d].images > 0 => poster.video_service # posts[d].service]_vars

\* a later run of the date delivers the video after the image of an earlier run:
\* it has sent no image itself and its video is of another service
RetriedVideoWitness ==
  /\ script \in DailyScripts
  /\ poster.pc = "record_video"
  /\ poster.sent = {"video"}
  /\ posts[poster.state.last_post_date].images = 1
  /\ posts[poster.state.last_post_date].videos = 1
  /\ poster.video_service # posts[poster.state.last_post_date].service

(***************************************************************************)
(* One image and one video per day                                         *)
(***************************************************************************)
\* C26: the runs of a daily script that have the same date deliver at most
\* one image and at most one video between them; a run builds or sends an
\* image, or a video, only when none has been delivered for its date, so that
\* after a delivered image and a failed video a later run goes for the video only
OnePostOfEachPerDay ==
  script \in DailyScripts =>
    /\ \A d \in Dates : posts[d].images <= 1 /\ posts[d].videos <= 1
    /\ poster.pc \in {"build_image", "send_image"} =>
         /\ posts[poster.state.last_post_date].images = 0
         /\ ~poster.state.image_generated_today
    /\ poster.pc \in {"build_video", "send_video"} =>
         /\ posts[poster.state.last_post_date].videos = 0
         /\ ~poster.state.video_generated_today
    /\ script = "daily" /\ poster.pc \in {"choose_video", "build_video", "send_video"} =>
         posts[poster.state.last_post_date].images = 1

\* the video of the date failed in the run that delivered the image, and a later
\* run has ended after delivering the video and nothing else
VideoOnlyRunWitness ==
  /\ script = "daily"
  /\ poster.pc = "exit"
  /\ poster.result = "0"
  /\ poster.sent = {"video"}
  /\ poster.loaded = "ok"
  /\ posts[poster.state.last_post_date] = [images |-> 1, videos |-> 1,
                                           service |-> poster.chosen.service]
  /\ dFile.data.image_generated_today
  /\ dFile.data.video_generated_today

(***************************************************************************)
(* Counter matches used list                                               *)
(***************************************************************************)
\* the state file of the video automation holds a used list as long as its
\* counter is high, with no service in it twice
CounterIsListLength ==
  vFile.kind = "ok" =>
    /\ Len(vFile.data.used_services_today) = vFile.data.count_today
    /\ \A i, j \in 1..Len(vFile.data.used_services_today) :
         i # j => vFile.data.used_services_today[i] # vFile.data.used_services_today[j]

\* C27 as stated: whatever the content buckets, every saved state has
\* len(used_services_today) = count_today and no service twice in the list
CounterMatchesUsedList == script = "video" => CounterIsListLength

\* C27: when the content buckets hold at least as many services as the daily
\* limit, every saved state has len(used_services_today) = count_today and no
\* service twice in the list, and no run empties the list in its selection
CounterMatchesWithEnoughServices ==
  script = "video" /\ Len(buckets.services) >= DAILY_VIDEO_LIMIT =>
    /\ CounterIsListLength
    /\ automation[1].pc \in {"build", "send", "record"} =>
         Len(automation[1].state.used_services_today) = automation[1].state.count_today

\* the third post of a date is saved, with as many services as the limit
ThreeDistinctServicesWitness ==
  /\ script = "video"
  /\ Len(buckets.services) = DAILY_VIDEO_LIMIT
  /\ vFile.kind = "ok"
  /\ vFile.data.count_today = DAILY_VIDEO_LIMIT
  /\ Len(vFile.data.used_services_today) = DAILY_VIDEO_LIMIT
  /\ Range(vFile.data.used_services_today) = Range(buckets.services)

(***************************************************************************)
(* Failed delivery changes no persisted file                               *)
(***************************************************************************)
\* C28: when a video run has failed in its Telegram delivery, state.json and
\* hashtag_rotation.json are as they were when the run started
FailedDeliveryKeepsFiles ==
  automation[1].pc = "exit" /\ automation[1].failed = "send" =>
    /\ vFile.kind = automation[1].loaded
    /\ load_state(vFile).last_slno = lastSerial
    /\ hashtags.file = hashtags.atStart

(***************************************************************************)
(* Bounded delivery retry                                                  *)
(***************************************************************************)
\* the call has reported a success to its caller
CallSucceeded == call.pc = "done" /\ call.result \in {"True", "returned"}

\* C29: a call of send_to_telegram makes at most 3 POST attempts; it reports a
\* success exactly when its last attempt was answered with 200, which is then
\* the first such answer; it reports a failure (False in VideoAutomation, an
\* exception in the scripts) after the third failed attempt, or without an
\* attempt when the credentials are missing; and it never goes on after its end
BoundedRetry ==
  /\ call.attempts <= MAX_RETRIES
  /\ call.pc = "post" => call.attempts < MAX_RETRIES
  /\ \A i \in 1..(call.attempts - 1) : call.responses[i] # "200"
  /\ CallSucceeded =>
       call.attempts >= 1 /\ call.responses[call.attempts] = "200"
  /\ call.pc = "done" /\ ~CallSucceeded =>
       /\ call.result = Reported(call.sender, FALSE)
       /\ \/ call.attempts = MAX_RETRIES /\ call.responses[MAX_RETRIES] # "200"
          \/ call.attempts = 0 /\ ~call.credentials

(***************************************************************************)
(* Hashtag rotation                                                        *)
(***************************************************************************)
\* the step in which run() calls get_next_hashtags
TagsTaken == automation[1].pc = "build" /\ automation'[1].pc = "send"

\* the batch of the call has no tag twice, is disjoint from the batches handed
\* out since the last refill, a refill comes only when every tag was handed out,
\* and the file holds the list that remains in memory
BatchesPartitionTags ==
  /\ Cardinality(Range(hashtags'.selected)) = Len(hashtags'.selected)
  /\ hashtags'.calls > 1 => Range(hashtags'.selected) \cap hashtags.since = {}
  /\ hashtags'.calls = hashtags.calls + 1
       => hashtags'.since = hashtags.since \cup Range(hashtags'.selected)
  /\ hashtags'.calls = 1 /\ hashtags.calls > 0
       => hashtags.since = Range(AGGRESSIVE_HASHTAGS)
  /\ hashtags'.file = RotationFile(hashtags'.rotation)

\* C30 as stated: between two refills the batches of get_next_hashtags(count) are
\* pairwise disjoint and use each tag exactly once, every call returns exactly
\* count tags, and after each call the file equals the list in memory
RotationExactCount ==
  [][TagsTaken =>
       BatchesPartitionTags /\ Len(hashtags'.selected) = TagsPerPost]_vars

\* C30 amended: the same, but a call returns count tags only while that many
\* remain; the call that empties the rotation returns the tags that are left,
\* at least one and possibly fewer than count
RotationUsesEachTagOnce ==
  [][TagsTaken =>
       /\ BatchesPartitionTags
       /\ Len(hashtags'.selected) >= 1
       /\ Len(hashtags'.selected) <= TagsPerPost
       /\ Len(hashtags'.selected) < TagsPerPost => hashtags'.rotation = <<>>]_vars

\* the last call of a rotation has returned the one tag that was left
RemainderBatchWitness ==
  /\ automation[1].pc = "send"
  /\ hashtags.calls = FullBatches + 1
  /\ Len(hashtags.selected) = 1
  /\ hashtags.since = Range(AGGRESSIVE_HASHTAGS)
  /\ hashtags.rotation = <<>>
  /\ hashtags.file = RotationFile(<<>>)

====
